---------------------------- MODULE Spec2Model ----------------------------
(***************************************************************************)
(* dotmgr: the generalize / specialize engine of src/manager.py, the tag   *)
(* resolution it uses and the repository and stage stores it reads and     *)
(* writes.  Text is modelled at the level of characters: a string is a     *)
(* sequence of one-character strings, a line is a string that ends with    *)
(* the newline character, a file is the sequence of lines readlines()      *)
(* returns.  Manager.link and the home directory, and the -S and -s FILE   *)
(* commands of main() in src/dotmgr.py on a directory tree, are modelled   *)
(* with paths as sequences of components.                                  *)
(***************************************************************************)
EXTENDS Integers, Sequences, FiniteSets, TLC

VARIABLES
    repo,        \* repository store: path -> file content or Absent
    stage,       \* stage store: path -> file content, Absent or Dangling
    tags,        \* Manager.tags, the host tags (a list of strings)
    hostname,    \* gethostname()
    tag_config,  \* the lines of the tag configuration file
    run,         \* the last invocation: operation, argument, outcome, stores before
    trace,       \* the last file transformed: marker, lines read, strings written, flags
    prev,        \* the transform before the last one
    home,        \* what lies at home_path(p), for each dotfile path p
    home_dir,    \* what lies at dirname(home_path(p)), the same for both paths
    fs,          \* the tree runs: the absolute paths of the regular files
    dotfile_stage_path,       \* Manager.dotfile_stage_path
    dotfile_tag_config_path,  \* Manager.dotfile_tag_config_path
    cmd          \* the last command line run: option, argument, specialize calls, outcome

vars == <<repo, stage, tags, hostname, tag_config, run, trace, prev,
          home, home_dir, fs, dotfile_stage_path, dotfile_tag_config_path, cmd>>

----------------------------------------------------------------------------
(* Python string primitives                                                *)

NL == "\n"

Whitespace == {" ", NL}

\* s[i:] (1-based i)
From(s, i) == SubSeq(s, i, Len(s))

\* s.startswith(sub, i-1)
MatchAt(s, sub, i) ==
    /\ i >= 1
    /\ i + Len(sub) - 1 <= Len(s)
    /\ SubSeq(s, i, i + Len(sub) - 1) = sub

\* s.startswith(sub)
StartsWith(s, sub) == MatchAt(s, sub, 1)

\* sub in s
Contains(s, sub) == \E i \in 1..(Len(s) + 1) : MatchAt(s, sub, i)

\* s.find(sub) + 1 for a sub that occurs in s
Find(s, sub) == CHOOSE i \in 1..(Len(s) + 1) :
    /\ MatchAt(s, sub, i)
    /\ \A j \in 1..(i - 1) : ~MatchAt(s, sub, j)

\* the length of the leading run of non-whitespace characters of s
RECURSIVE WordLen(_)
WordLen(s) ==
    IF s = <<>> \/ Head(s) \in Whitespace THEN 0 ELSE 1 + WordLen(Tail(s))

\* s.split(), which is also findall(r'\S+', s)
RECURSIVE Split(_)
Split(s) ==
    IF s = <<>> THEN <<>>
    ELSE IF Head(s) \in Whitespace THEN Split(Tail(s))
    ELSE <<SubSeq(s, 1, WordLen(s))>> \o Split(From(s, WordLen(s) + 1))

\* s.split(sep) for a non-empty sep
RECURSIVE SplitOn(_, _)
SplitOn(s, sep) ==
    IF ~Contains(s, sep) THEN <<s>>
    ELSE <<SubSeq(s, 1, Find(s, sep) - 1)>>
             \o SplitOn(From(s, Find(s, sep) + Len(sep)), sep)

\* sep.join(list)
RECURSIVE Join(_, _)
Join(sep, list) ==
    IF list = <<>> THEN <<>>
    ELSE IF Len(list) = 1 THEN list[1]
    ELSE list[1] \o sep \o Join(sep, Tail(list))

\* list[1:], which is [] for an empty list
Rest(list) == IF list = <<>> THEN <<>> ELSE Tail(list)

\* x in list
InList(x, list) == \E i \in DOMAIN list : list[i] = x

\* the concatenation of the strings of a list: what successive write() calls leave
RECURSIVE Concat(_)
Concat(list) == IF list = <<>> THEN <<>> ELSE Head(list) \o Concat(Tail(list))

\* the length of the first line of a non-empty text, its newline included
RECURSIVE LineLen(_)
LineLen(text) ==
    IF text = <<>> THEN 0
    ELSE IF Head(text) = NL THEN 1
    ELSE 1 + LineLen(Tail(text))

\* file.readlines() of a file holding text
RECURSIVE ReadLines(_)
ReadLines(text) ==
    IF text = <<>> THEN <<>>
    ELSE <<SubSeq(text, 1, LineLen(text))>> \o ReadLines(From(text, LineLen(text) + 1))


----------------------------------------------------------------------------
(* Text literals of the source                                             *)

Eol == <<NL>>
Colon == <<":">>
KwOnly == <<"o", "n", "l", "y">>
KwNot == <<"n", "o", "t">>
KwEnd == <<"e", "n", "d">>

\* '{0}{0}only'.format(cseq), '{0}{0}not'.format(cseq), '{0}{0}end'.format(cseq)
Directive(cseq, keyword) == cseq \o cseq \o keyword

\* return [""], the tag list of a host the configuration does not name
NoTagsFound == << <<>> >>

----------------------------------------------------------------------------
(* Manager.get_tags and Manager.identify_comment_sequence                  *)

\* the tags of the first line that starts with hostname + ':'
RECURSIVE get_tags(_, _)
get_tags(host, config) ==
    IF config = <<>> THEN NoTagsFound
    ELSE IF StartsWith(Head(config), host \o Colon)
         THEN Split(SplitOn(Head(config), Colon)[2])
         ELSE get_tags(host, Tail(config))

\* matches = findall(r'\S+', line)
Matches(line) == Split(line)

\* seq = matches[0], for a line with a match (the other lines make it exit())
identify_comment_sequence(line) == Matches(line)[1]

----------------------------------------------------------------------------
(* The loop bodies of Manager.specialize and Manager.generalize            *)

\* Variant: every host tag has to be a section tag
TagsMatchAll(host_tags, section_tags) ==
    \A i \in DOMAIN host_tags : InList(host_tags[i], section_tags)

\* Variant: a host tag matches when it occurs inside a section tag
TagsMatchSubstring(host_tags, section_tags) ==
    \E i \in DOMAIN host_tags, j \in DOMAIN section_tags :
        Contains(section_tags[j], host_tags[i])

\* [tag for tag in self.tags if tag in section_tags], as a truth value
TagsMatch(host_tags, section_tags) ==
    \E i \in DOMAIN host_tags : InList(host_tags[i], section_tags)

\* section_tags = line.split(); section_tags = section_tags[1:]
SectionTags(line) == Rest(Split(line))

\* specific_dotfile.write(cseq + line)
CommentOut(cseq, line) == cseq \o line

\* slices = line.split(cseq); generic_dotfile.write(cseq.join(slices[1:]))
Strip(cseq, line) == Join(cseq, Rest(SplitOn(line, cseq)))

\* Variant: the flag starts set
InitialFlagSet == TRUE

\* comment_out = False, strip = False before the loop
InitialFlag == FALSE

\* Variant: a matching only directive does not reset comment_out
SpecializeLineNoReset(cseq, host_tags, comment_out, line) ==
    LET has_only == Contains(line, Directive(cseq, KwOnly))
        has_not == Contains(line, Directive(cseq, KwNot))
        has_end == Contains(line, Directive(cseq, KwEnd))
        matched == TagsMatch(host_tags, SectionTags(line))
        after_not == IF has_not THEN FALSE ELSE comment_out
        after_end == IF has_end THEN FALSE ELSE after_not
    IN  IF has_only /\ ~matched
        THEN [write |-> line, flag |-> TRUE]
        ELSE IF has_not /\ matched
        THEN [write |-> line, flag |-> TRUE]
        ELSE [write |-> IF after_end THEN CommentOut(cseq, line) ELSE line,
              flag |-> after_end]

\* Variant: an end directive leaves comment_out as it is
SpecializeLineEndKeeps(cseq, host_tags, comment_out, line) ==
    LET has_only == Contains(line, Directive(cseq, KwOnly))
        has_not == Contains(line, Directive(cseq, KwNot))
        matched == TagsMatch(host_tags, SectionTags(line))
        after_only == IF has_only THEN FALSE ELSE comment_out
        after_not == IF has_not THEN FALSE ELSE after_only
    IN  IF has_only /\ ~matched
        THEN [write |-> line, flag |-> TRUE]
        ELSE IF has_not /\ matched
        THEN [write |-> line, flag |-> TRUE]
        ELSE [write |-> IF after_not THEN CommentOut(cseq, line) ELSE line,
              flag |-> after_not]

\* Variant: the directive line that sets comment_out is commented out as well
SpecializeLineCommentsDirective(cseq, host_tags, comment_out, line) ==
    LET has_only == Contains(line, Directive(cseq, KwOnly))
        has_not == Contains(line, Directive(cseq, KwNot))
        has_end == Contains(line, Directive(cseq, KwEnd))
        matched == TagsMatch(host_tags, SectionTags(line))
        after_only == IF has_only THEN FALSE ELSE comment_out
        after_not == IF has_not THEN FALSE ELSE after_only
        after_end == IF has_end THEN FALSE ELSE after_not
    IN  IF has_only /\ ~matched
        THEN [write |-> CommentOut(cseq, line), flag |-> TRUE]
        ELSE IF has_not /\ matched
        THEN [write |-> CommentOut(cseq, line), flag |-> TRUE]
        ELSE [write |-> IF after_end THEN CommentOut(cseq, line) ELSE line,
              flag |-> after_end]

\* One iteration of the loop of specialize: the string written and the value of
\* comment_out when the iteration ends.
SpecializeLine(cseq, host_tags, comment_out, line) ==
    LET has_only == Contains(line, Directive(cseq, KwOnly))
        has_not == Contains(line, Directive(cseq, KwNot))
        has_end == Contains(line, Directive(cseq, KwEnd))
        matched == TagsMatch(host_tags, SectionTags(line))
        after_only == IF has_only THEN FALSE ELSE comment_out
        after_not == IF has_not THEN FALSE ELSE after_only
        after_end == IF has_end THEN FALSE ELSE after_not
    IN  IF has_only /\ ~matched
        THEN [write |-> line, flag |-> TRUE]              \* write, continue
        ELSE IF has_not /\ matched
        THEN [write |-> line, flag |-> TRUE]              \* write, continue
        ELSE [write |-> IF after_end THEN CommentOut(cseq, line) ELSE line,
              flag |-> after_end]

\* One iteration of the loop of generalize: the string written and the value of
\* strip when the iteration ends.
GeneralizeLine(cseq, host_tags, strip, line) ==
    LET has_only == Contains(line, Directive(cseq, KwOnly))
        has_not == Contains(line, Directive(cseq, KwNot))
        has_end == Contains(line, Directive(cseq, KwEnd))
        matched == TagsMatch(host_tags, SectionTags(line))
        after_only == IF has_only THEN FALSE ELSE strip
        after_not == IF has_not THEN FALSE ELSE after_only
        after_end == IF has_end THEN FALSE ELSE after_not
    IN  IF has_only /\ ~matched
        THEN [write |-> line, flag |-> TRUE]              \* write, continue
        ELSE IF has_not /\ matched
        THEN [write |-> line, flag |-> TRUE]              \* write, continue
        ELSE [write |-> IF after_end THEN Strip(cseq, line) ELSE line,
              flag |-> after_end]

\* for line in generic_content: the iterations, in order
RECURSIVE SpecializeLoop(_, _, _, _)
SpecializeLoop(cseq, host_tags, comment_out, content) ==
    IF content = <<>> THEN <<>>
    ELSE LET it == SpecializeLine(cseq, host_tags, comment_out, Head(content))
         IN  <<it>> \o SpecializeLoop(cseq, host_tags, it.flag, Tail(content))

\* for line in specific_content: the iterations, in order
RECURSIVE GeneralizeLoop(_, _, _, _)
GeneralizeLoop(cseq, host_tags, strip, content) ==
    IF content = <<>> THEN <<>>
    ELSE LET it == GeneralizeLine(cseq, host_tags, strip, Head(content))
         IN  <<it>> \o GeneralizeLoop(cseq, host_tags, it.flag, Tail(content))

\* the strings written, and the flag after each iteration
Writes(iterations) == [i \in DOMAIN iterations |-> iterations[i].write]
Flags(iterations) == [i \in DOMAIN iterations |-> iterations[i].flag]

----------------------------------------------------------------------------
(* The stores and the operations on one dotfile                            *)

Absent == [kind |-> "absent", lines |-> <<>>]
\* a symlink whose target is missing: listdir() names it, open() raises
\* FileNotFoundError
Dangling == [kind |-> "dangling", lines |-> <<>>]
File(content) == [kind |-> "file", lines |-> content]

NoTrace ==
    [op |-> "none", path |-> <<>>, cseq |-> <<>>, inp |-> <<>>,
     writes |-> <<>>, flags |-> <<>>]

\* the state an invocation works on: the two stores, how the process ended so far
\* ("ok", "exit" after exit(), "error" after an uncaught exception), the dotfiles
\* whose operation was entered, and the transforms performed
Process(repo_, stage_, trace_, prev_) ==
    [repo |-> repo_, stage |-> stage_, status |-> "ok", done |-> <<>>,
     trace |-> trace_, prev |-> prev_]

\* with open(self.stage_path(dotfile_path), 'w') ... : the file holds what was
\* written, and a later readlines() cuts it into lines again
Written(writes) == File(ReadLines(Concat(writes)))

\* Variant: the stage file is opened for writing before the content is looked at
specialize_open_first(st, host_tags, p) ==
    LET entered == [st EXCEPT !.done = Append(@, p)]
        generic_content == st.repo[p].lines
        cseq == identify_comment_sequence(generic_content[1])
        its == SpecializeLoop(cseq, host_tags, InitialFlag, generic_content)
    IN  IF st.repo[p].kind # "file"
        THEN [entered EXCEPT !.status = "error"]
        ELSE IF generic_content = <<>>
        THEN [entered EXCEPT !.stage[p] = File(<<>>)]
        ELSE IF Matches(generic_content[1]) = <<>>
        THEN [entered EXCEPT !.status = "exit", !.stage[p] = File(<<>>)]
        ELSE [entered EXCEPT
                 !.stage[p] = Written(Writes(its)),
                 !.prev = st.trace,
                 !.trace = [op |-> "specialize", path |-> p, cseq |-> cseq,
                            inp |-> generic_content, writes |-> Writes(its),
                            flags |-> Flags(its)]]

\* Variant: the result is written to the path that was read
specialize_in_place(st, host_tags, p) ==
    LET entered == [st EXCEPT !.done = Append(@, p)]
        generic_content == st.repo[p].lines
        cseq == identify_comment_sequence(generic_content[1])
        its == SpecializeLoop(cseq, host_tags, InitialFlag, generic_content)
    IN  IF st.repo[p].kind # "file"
        THEN [entered EXCEPT !.status = "error"]
        ELSE IF generic_content = <<>>
        THEN entered
        ELSE IF Matches(generic_content[1]) = <<>>
        THEN [entered EXCEPT !.status = "exit"]
        ELSE [entered EXCEPT
                 !.repo[p] = Written(Writes(its)),
                 !.prev = st.trace,
                 !.trace = [op |-> "specialize", path |-> p, cseq |-> cseq,
                            inp |-> generic_content, writes |-> Writes(its),
                            flags |-> Flags(its)]]

\* Manager.specialize(dotfile_path)
specialize(st, host_tags, p) ==
    LET entered == [st EXCEPT !.done = Append(@, p)]
        generic_content == st.repo[p].lines
        cseq == identify_comment_sequence(generic_content[1])
        its == SpecializeLoop(cseq, host_tags, InitialFlag, generic_content)
    IN  IF st.repo[p].kind # "file"
        THEN [entered EXCEPT !.status = "error"]       \* open() raises
        ELSE IF generic_content = <<>>
        THEN entered                                   \* return
        ELSE IF Matches(generic_content[1]) = <<>>
        THEN [entered EXCEPT !.status = "exit"]        \* exit()
        ELSE [entered EXCEPT
                 !.stage[p] = Written(Writes(its)),
                 !.prev = st.trace,
                 !.trace = [op |-> "specialize", path |-> p, cseq |-> cseq,
                            inp |-> generic_content, writes |-> Writes(its),
                            flags |-> Flags(its)]]

\* Variant: FileNotFoundError is not caught
generalize_uncaught(st, host_tags, p) ==
    LET entered == [st EXCEPT !.done = Append(@, p)]
        specific_content == st.stage[p].lines
        cseq == identify_comment_sequence(specific_content[1])
        its == GeneralizeLoop(cseq, host_tags, InitialFlag, specific_content)
    IN  IF st.stage[p].kind # "file"
        THEN [entered EXCEPT !.status = "error"]
        ELSE IF specific_content = <<>>
        THEN entered
        ELSE IF Matches(specific_content[1]) = <<>>
        THEN [entered EXCEPT !.status = "exit"]
        ELSE [entered EXCEPT
                 !.repo[p] = Written(Writes(its)),
                 !.prev = st.trace,
                 !.trace = [op |-> "generalize", path |-> p, cseq |-> cseq,
                            inp |-> specific_content, writes |-> Writes(its),
                            flags |-> Flags(its)]]

\* Variant: the repository file is opened for writing before the content is
\* looked at
generalize_open_first(st, host_tags, p) ==
    LET entered == [st EXCEPT !.done = Append(@, p)]
        specific_content == st.stage[p].lines
        cseq == identify_comment_sequence(specific_content[1])
        its == GeneralizeLoop(cseq, host_tags, InitialFlag, specific_content)
    IN  IF st.stage[p].kind # "file"
        THEN entered
        ELSE IF specific_content = <<>>
        THEN [entered EXCEPT !.repo[p] = File(<<>>)]
        ELSE IF Matches(specific_content[1]) = <<>>
        THEN [entered EXCEPT !.status = "exit", !.repo[p] = File(<<>>)]
        ELSE [entered EXCEPT
                 !.repo[p] = Written(Writes(its)),
                 !.prev = st.trace,
                 !.trace = [op |-> "generalize", path |-> p, cseq |-> cseq,
                            inp |-> specific_content, writes |-> Writes(its),
                            flags |-> Flags(its)]]

\* Manager.generalize(dotfile_path)
generalize(st, host_tags, p) ==
    LET entered == [st EXCEPT !.done = Append(@, p)]
        specific_content == st.stage[p].lines
        cseq == identify_comment_sequence(specific_content[1])
        its == GeneralizeLoop(cseq, host_tags, InitialFlag, specific_content)
    IN  IF st.stage[p].kind # "file"
        THEN entered                  \* except FileNotFoundError: print; return
        ELSE IF specific_content = <<>>
        THEN entered                                   \* return
        ELSE IF Matches(specific_content[1]) = <<>>
        THEN [entered EXCEPT !.status = "exit"]        \* exit()
        ELSE [entered EXCEPT
                 !.repo[p] = Written(Writes(its)),
                 !.prev = st.trace,
                 !.trace = [op |-> "generalize", path |-> p, cseq |-> cseq,
                            inp |-> specific_content, writes |-> Writes(its),
                            flags |-> Flags(its)]]

----------------------------------------------------------------------------
(* Directories                                                             *)

\* the relative paths of the dotfiles: two files of one directory
DirD == <<"d">>
PathB == <<"d", "b">>
PathC == <<"d", "c">>
Paths == {PathB, PathC}

\* the files listdir() finds below directory_path in a store
Listing(store, directory_path) ==
    {p \in Paths : /\ store[p].kind # "absent"
                   /\ SubSeq(p, 1, Len(directory_path)) = directory_path}

\* the orders in which listdir() may return them
Orders(S) ==
    {o \in [1..Cardinality(S) -> S] : \A i, j \in DOMAIN o : o[i] = o[j] => i = j}

\* Manager.specialize_directory(directory_path): the loop over the entries, which
\* an exit() or an exception of one call ends
RECURSIVE specialize_directory(_, _, _)
specialize_directory(st, host_tags, order) ==
    IF order = <<>> \/ st.status # "ok" THEN st
    ELSE IF Head(order)[Len(Head(order))] = ".git"
    THEN specialize_directory(st, host_tags, Tail(order))    \* continue
    ELSE specialize_directory(specialize(st, host_tags, Head(order)),
                              host_tags, Tail(order))

\* Manager.generalize_directory(directory_path)
RECURSIVE generalize_directory(_, _, _)
generalize_directory(st, host_tags, order) ==
    IF order = <<>> \/ st.status # "ok" THEN st
    ELSE IF Head(order)[Len(Head(order))] = ".git"
    THEN generalize_directory(st, host_tags, Tail(order))    \* continue
    ELSE generalize_directory(generalize(st, host_tags, Head(order)),
                              host_tags, Tail(order))

----------------------------------------------------------------------------
(* The home directory and Manager.link                                     *)

\* what can lie at a path below the home directory: nothing, a regular file, a
\* directory, the link to the stage file of the path that link() creates, a link
\* to some other existing file, a link whose target is missing
HomeKinds == {"absent", "file", "dir", "link", "link_other", "link_dangling"}

\* the home directory, the stage and how the call ends
Linking(home_, home_dir_, stage_) ==
    [home |-> home_, home_dir |-> home_dir_, stage |-> stage_, status |-> "ok"]

\* exists(link_path): True for a link only when its target exists
exists(hm, p) ==
    /\ hm.home_dir = "dir"
    /\ \/ hm.home[p] \in {"file", "dir", "link_other"}
       \/ hm.home[p] = "link" /\ hm.stage[p].kind = "file"

\* Manager.link(dotfile_path)
link(hm, p) ==
    IF exists(hm, p) THEN hm                                \* return
    ELSE IF hm.home_dir = "file"
    THEN [hm EXCEPT !.status = "error"]                     \* makedirs raises
    ELSE IF hm.home[p] # "absent"
    THEN [hm EXCEPT !.home_dir = "dir", !.status = "error"] \* symlink raises
    ELSE [hm EXCEPT !.home_dir = "dir", !.home[p] = "link"]

----------------------------------------------------------------------------
(* The directory tree and the commands -S and -s FILE of main()            *)
(* (src/dotmgr.py).  A path is the sequence of its components, the tree    *)
(* is the set of the paths of its regular files; every file holds a first  *)
(* line with a token, so that each specialize call reaches its write.      *)
(* The commands are given without -l and -L.                               *)

\* dotfile_repository_path
dotfile_repository_path == <<"r">>

\* Manager.repo_path(dotfile_name): dotfile_repository_path + '/' + dotfile_name
repo_path(dotfile_name) == dotfile_repository_path \o dotfile_name

\* Manager.stage_path(dotfile_name): dotfile_stage_path + '/' + dotfile_name
stage_path(dotfile_name) == dotfile_stage_path \o dotfile_name

\* path is at or below directory
Below(path, directory) ==
    /\ Len(path) >= Len(directory)
    /\ SubSeq(path, 1, Len(directory)) = directory

\* the directories: those that lead to a file, the repository, and the stage
\* directory with those that lead to it (main() creates it)
Directories(files) ==
    UNION {{SubSeq(f, 1, k) : k \in 0..(Len(f) - 1)} : f \in files}
        \cup {SubSeq(dotfile_stage_path, 1, k) : k \in 0..Len(dotfile_stage_path)}
        \cup {dotfile_repository_path}

isdir(files, path) == path \in Directories(files)

isfile(files, path) == path \in files

\* the names of the entries of a directory
Entries(files, directory) ==
    {q[Len(directory) + 1] :
        q \in {q \in files \cup Directories(files) :
                  Below(q, directory) /\ Len(q) > Len(directory)}}

\* the names a path can hold, in alphabetical order
NameOrder ==
    <<".config", ".git", "a", "b", "c", "d", "dotmgr", "h", "r", "s", "t",
      "tags.conf">>

Reverse(list) == [i \in 1..Len(list) |-> list[Len(list) + 1 - i]]

\* listdir(directory): the entries, in alphabetical or in reverse order
listdir(files, directory, reversed) ==
    LET IsEntry(name) == name \in Entries(files, directory)
        sorted == SelectSeq(NameOrder, IsEntry)
    IN  IF reversed THEN Reverse(sorted) ELSE sorted

\* the state a command works on: the tree, the specialize calls made, and how
\* the process ended so far
Command(files) == [files |-> files, calls |-> <<>>, status |-> "ok"]

\* the longest path the system opens, in components (PATH_MAX)
MaxPathLen == 8

\* Manager.specialize(dotfile_path, tags) on the tree: open() of the generic
\* file, makedirs() and open(..., 'w') of the stage file, which raise when the
\* path is too long, is a directory or leads through a file
tree_specialize(st, dotfile_path) ==
    LET source == repo_path(dotfile_path)
        target == stage_path(dotfile_path)
        blocked == \/ Len(target) > MaxPathLen
                   \/ isdir(st.files, target)
                   \/ \E k \in 1..(Len(target) - 1) : SubSeq(target, 1, k) \in st.files
    IN  IF ~isfile(st.files, source) \/ blocked
        THEN [st EXCEPT
                 !.calls = Append(@, [dotfile_path |-> dotfile_path,
                                      read |-> source, write |-> <<>>]),
                 !.status = "error"]
        ELSE [st EXCEPT
                 !.calls = Append(@, [dotfile_path |-> dotfile_path,
                                      read |-> source, write |-> target]),
                 !.files = @ \cup {target}]

\* Manager.specialize_directory(directory_path, tags): the loop over entries,
\* the entries of directory_path that are left to visit
RECURSIVE tree_specialize_directory(_, _, _, _)
tree_specialize_directory(st, directory_path, entries, reversed) ==
    IF entries = <<>> \/ st.status # "ok" THEN st
    ELSE LET entry == Head(entries)
             full_path == directory_path \o <<entry>>
         IN  IF entry = ".git"
             THEN tree_specialize_directory(st, directory_path, Tail(entries), reversed)
             ELSE IF isdir(st.files, repo_path(full_path))
             THEN tree_specialize_directory(
                      tree_specialize_directory(
                          st, full_path,
                          listdir(st.files, repo_path(full_path), reversed), reversed),
                      directory_path, Tail(entries), reversed)
             ELSE tree_specialize_directory(
                      tree_specialize(st, full_path),
                      directory_path, Tail(entries), reversed)

\* main(), if args.specialize_all: the loop over the entries of the repository
RECURSIVE specialize_all(_, _, _)
specialize_all(st, entries, reversed) ==
    IF entries = <<>> \/ st.status # "ok" THEN st
    ELSE LET entry == Head(entries)
         IN  IF isdir(st.files, dotfile_repository_path \o <<entry>>)
             THEN IF repo_path(<<entry>>) = dotfile_stage_path \/ entry = ".git"
                  THEN specialize_all(st, Tail(entries), reversed)
                  ELSE specialize_all(
                           tree_specialize_directory(
                               st, <<entry>>,
                               listdir(st.files, repo_path(<<entry>>), reversed),
                               reversed),
                           Tail(entries), reversed)
             ELSE IF repo_path(<<entry>>) = dotfile_tag_config_path
                  THEN specialize_all(st, Tail(entries), reversed)
                  ELSE specialize_all(tree_specialize(st, <<entry>>),
                                      Tail(entries), reversed)

\* main() up to the creation of the Manager: exit() without a tag configuration
main(files, action) ==
    IF ~isfile(files, dotfile_tag_config_path)
    THEN [Command(files) EXCEPT !.status = "exit"]
    ELSE action

\* dotmgr -S
main_specialize_all(files, reversed) ==
    main(files,
         specialize_all(Command(files),
                        listdir(files, dotfile_repository_path, reversed), reversed))

\* dotmgr -s FILE: manager.specialize(manager.repo_path(args.specialize), ...)
main_specialize(files, file) ==
    main(files, tree_specialize(Command(files), repo_path(file)))

----------------------------------------------------------------------------
(* Inputs                                                                  *)

MaxRich == 2
MaxCore == 3
MaxConfigLines == 2
MaxCommands == 2

SeqsUpTo(S, n) == UNION {[1..k -> S] : k \in 0..n}

Ln(s) == s \o Eol
Hash == <<"#">>
Sp == <<" ">>
X == <<"x">>
TagL == <<"l">>
TagM == <<"m">>
HostH == <<"h">>

\* body lines of a file whose marker is #
CoreLines ==
    { Ln(Hash \o Hash \o KwOnly \o Sp \o TagL),             \* ##only l
      Ln(Hash \o Hash \o KwNot \o Sp \o TagL),              \* ##not l
      Ln(Hash \o Hash \o KwEnd),                            \* ##end
      Ln(X),                                                \* x
      Ln(Hash \o X),                                        \* #x
      Ln(Hash \o KwEnd) }                                   \* #end

RichLines ==
    CoreLines \cup
    { Ln(Hash \o Hash \o KwOnly \o Sp \o TagL \o Sp \o TagM), \* ##only l m
      Ln(Hash \o Hash \o KwOnly),                           \* ##only
      Ln(X \o Hash \o X),                                   \* x#x
      Ln(Hash \o Hash \o KwEnd \o X),                       \* ##endx
      Ln(Hash \o Hash \o KwNot \o X \o Sp \o TagL),         \* ##notx l
      Ln(Hash \o Hash \o KwOnly \o X \o Sp \o TagM),        \* ##onlyx m
      Ln(Hash \o Hash \o Hash \o KwEnd),                    \* ###end
      Ln(X \o Sp \o TagL \o Sp \o Hash \o Hash \o KwOnly \o Sp \o TagM),
                                                            \* x l ##only m
      Ln(Hash \o Hash \o KwOnly \o Sp \o TagL \o Sp \o Hash \o Hash \o KwEnd) }
                                                            \* ##only l ##end

\* first lines: the marker alone, a first line that is itself a directive line, a
\* first line without any token
HeaderPlain == Ln(Hash)
HeaderDirective == Ln(Hash \o Sp \o Hash \o Hash \o KwOnly \o Sp \o TagM)
HeaderBlank == Ln(Sp)

EngineFiles ==
    {<<>>, <<HeaderBlank>>, <<HeaderBlank, Ln(X)>>}
    \cup {<<HeaderPlain>> \o b : b \in SeqsUpTo(RichLines, MaxRich)}
    \cup {<<HeaderDirective>> \o b : b \in SeqsUpTo(CoreLines, MaxCore)}

\* tag configurations of the engine runs: each of the tag lists [l], [l, m], []
\* and, for a host the configuration does not name, the default
EngineConfigs ==
    { <<Ln(HostH \o Colon \o Sp \o TagL)>>,
      <<Ln(HostH \o Colon \o Sp \o TagL \o Sp \o TagM)>>,
      <<Ln(HostH \o Colon)>>,
      <<Ln(<<"g">> \o Colon \o Sp \o TagL)>> }

\* the files of the store runs
GenericBlock ==
    <<HeaderPlain, Ln(Hash \o Hash \o KwOnly \o Sp \o TagL), Ln(X),
      Ln(Hash \o Hash \o KwEnd)>>
SpecificBlock ==
    <<HeaderPlain, Ln(Hash \o Hash \o KwOnly \o Sp \o TagL), Ln(Hash \o X),
      Ln(Hash \o Hash \o KwEnd)>>
StoreRepoEntries ==
    {Absent, File(<<>>), File(<<HeaderBlank, Ln(X)>>), File(GenericBlock)}
\* (on stage, the file without a marker starts with an empty line)
StoreStageEntries ==
    {Absent, Dangling, File(<<>>), File(<<Ln(<<>>), Ln(X)>>), File(SpecificBlock)}
StoreConfigs ==
    { <<Ln(HostH \o Colon \o Sp \o TagL)>>, <<Ln(HostH \o Colon)>> }

NoHome == [p \in Paths |-> "absent"]

NoRun ==
    [op |-> "none", arg |-> <<>>, order |-> <<>>, status |-> "ok", done |-> <<>>,
     repo0 |-> [p \in Paths |-> Absent], stage0 |-> [p \in Paths |-> Absent],
     home0 |-> NoHome, home_dir0 |-> "absent"]

\* the entries of the stores in the link runs
LinkRepoEntries == {Absent, File(GenericBlock)}
LinkStageEntries == {Absent, Dangling, File(SpecificBlock)}

\* the trees of the tree runs: two dotfiles, and any of a .git directory at the
\* top and below a directory, a tag configuration at the top of the repository,
\* at its default place in the repository and at its default place in the home
\* directory, a file in each directory that can be the stage, and a file in a
\* directory of the repository that is named like the repository
TreeDotfiles == {repo_path(<<"a">>), repo_path(<<"d", "b">>)}
TagConfigTop == repo_path(<<"tags.conf">>)
TagConfigBootstrap == repo_path(<<".config", "dotmgr", "tags.conf">>)
TagConfigHome == <<"h", ".config", "dotmgr", "tags.conf">>
StageOutside == <<"t">>
StageTop == repo_path(<<"s">>)
StageNested == repo_path(<<"d", "s">>)
TreeOptionalFiles ==
    { repo_path(<<".git", "c">>), repo_path(<<"d", ".git", "c">>),
      TagConfigTop, TagConfigBootstrap, TagConfigHome,
      StageTop \o <<"b">>, StageNested \o <<"b">>,
      repo_path(repo_path(<<"a">>)) }
Trees == {TreeDotfiles \cup optional : optional \in SUBSET TreeOptionalFiles}
StagePaths == {StageOutside, StageTop, StageNested}
TagConfigPaths == {TagConfigHome, TagConfigTop, TagConfigBootstrap}

\* the FILE arguments of -s
FileArguments == {<<"a">>, <<"d", "b">>}

NoCommand ==
    [op |-> "none", arg |-> <<>>, calls |-> <<>>, status |-> "ok", count |-> 0]

\* lines of the tag configuration, and host names
TagConfigLines ==
    { Ln(HostH \o Colon \o Sp \o TagL \o Sp \o TagM),           \* h: l m
      Ln(HostH \o Colon \o TagM),                               \* h:m
      Ln(HostH \o Colon),                                       \* h:
      Ln(HostH \o HostH \o Colon \o Sp \o TagM),                \* hh: m
      Ln(<<"g">> \o Colon \o Sp \o TagL),                       \* g: l
      Ln(Sp \o HostH \o Colon \o Sp \o TagL),                   \*  h: l
      Ln(HostH \o Sp \o Colon \o TagL),                         \* h :l
      Ln(HostH \o Colon \o Sp \o TagL \o Colon \o TagM \o Sp \o TagM),
                                                                \* h: l:m m
      Ln(HostH \o Colon \o Sp \o TagL \o Sp \o Colon \o TagM),  \* h: l :m
      Ln(TagL \o Sp \o TagM) }                                  \* l m
TagHosts == {HostH, HostH \o HostH}

----------------------------------------------------------------------------
(* The state machine                                                       *)

\* after Manager.__init__: the tags are those of the host
InitManager(host, config) ==
    /\ hostname = host
    /\ tag_config = config
    /\ tags = get_tags(host, config)
    /\ run = NoRun
    /\ trace = NoTrace
    /\ prev = NoTrace
    /\ cmd = NoCommand

\* nothing in the home directory
InitNoHome ==
    /\ home = NoHome
    /\ home_dir = "absent"

\* no tree: the stage and the tag configuration outside of the repository
InitNoTree ==
    /\ fs = {}
    /\ dotfile_stage_path = StageOutside
    /\ dotfile_tag_config_path = TagConfigHome

\* the store runs: any small content at each path of both stores
Init ==
    /\ repo \in [Paths -> StoreRepoEntries]
    /\ stage \in [Paths -> StoreStageEntries]
    /\ \E config \in StoreConfigs : InitManager(HostH, config)
    /\ InitNoHome
    /\ InitNoTree

\* the engine runs: one dotfile, in the repository or on stage, of any content
InitEngine ==
    /\ \E f \in EngineFiles :
          \/ /\ repo = [p \in Paths |-> IF p = PathB THEN File(f) ELSE Absent]
             /\ stage = [p \in Paths |-> Absent]
          \/ /\ repo = [p \in Paths |-> Absent]
             /\ stage = [p \in Paths |-> IF p = PathB THEN File(f) ELSE Absent]
    /\ \E config \in EngineConfigs : InitManager(HostH, config)
    /\ InitNoHome
    /\ InitNoTree

\* the tag runs: any host name and configuration, no dotfile
InitTags ==
    /\ repo = [p \in Paths |-> Absent]
    /\ stage = [p \in Paths |-> Absent]
    /\ \E host \in TagHosts, config \in SeqsUpTo(TagConfigLines, MaxConfigLines) :
          InitManager(host, config)
    /\ InitNoHome
    /\ InitNoTree

\* the link runs: anything at the home paths, the stage files there or not
InitLink ==
    /\ repo \in [Paths -> LinkRepoEntries]
    /\ stage \in [Paths -> LinkStageEntries]
    /\ \E config \in StoreConfigs : InitManager(HostH, config)
    /\ home_dir \in {"absent", "dir", "file"}
    /\ home \in [Paths -> HomeKinds]
    /\ home_dir # "dir" => home = NoHome
    /\ InitNoTree

\* the tree runs: any tree, the stage and the tag configuration outside of the
\* repository or inside
InitMain ==
    /\ repo = [p \in Paths |-> Absent]
    /\ stage = [p \in Paths |-> Absent]
    /\ InitManager(HostH, <<>>)
    /\ InitNoHome
    /\ fs \in Trees
    /\ dotfile_stage_path \in StagePaths
    /\ dotfile_tag_config_path \in TagConfigPaths

\* what an invocation leaves: the stores, the transforms, and its record
Leaves(st, op, arg, order) ==
    /\ repo' = st.repo
    /\ stage' = st.stage
    /\ trace' = st.trace
    /\ prev' = st.prev
    /\ run' = [op |-> op, arg |-> arg, order |-> order, status |-> st.status,
               done |-> st.done, repo0 |-> repo, stage0 |-> stage,
               home0 |-> home, home_dir0 |-> home_dir]
    /\ UNCHANGED <<tags, hostname, tag_config, home, home_dir>>
    /\ UNCHANGED <<fs, dotfile_stage_path, dotfile_tag_config_path, cmd>>

Specialize(p) ==
    /\ p \in Paths
    /\ Leaves(specialize(Process(repo, stage, trace, prev), tags, p),
              "specialize", p, <<p>>)

Generalize(p) ==
    /\ p \in Paths
    /\ Leaves(generalize(Process(repo, stage, trace, prev), tags, p),
              "generalize", p, <<p>>)

SpecializeDirectory(d) ==
    /\ Listing(repo, d) # {}
    /\ \E order \in Orders(Listing(repo, d)) :
          Leaves(specialize_directory(Process(repo, stage, trace, prev), tags, order),
                 "specialize_directory", d, order)

GeneralizeDirectory(d) ==
    /\ Listing(stage, d) # {}
    /\ \E order \in Orders(Listing(stage, d)) :
          Leaves(generalize_directory(Process(repo, stage, trace, prev), tags, order),
                 "generalize_directory", d, order)

\* tags = manager.get_tags()
GetTags ==
    /\ tags' = get_tags(hostname, tag_config)
    /\ run' = [NoRun EXCEPT !.op = "get_tags"]
    /\ UNCHANGED <<repo, stage, hostname, tag_config, trace, prev, home, home_dir>>
    /\ UNCHANGED <<fs, dotfile_stage_path, dotfile_tag_config_path, cmd>>

\* manager.link(p)
Link(p) ==
    /\ p \in Paths
    /\ LET hm == link(Linking(home, home_dir, stage), p)
       IN  /\ home' = hm.home
           /\ home_dir' = hm.home_dir
           /\ run' = [NoRun EXCEPT !.op = "link", !.arg = p, !.status = hm.status,
                                   !.repo0 = repo, !.stage0 = stage,
                                   !.home0 = home, !.home_dir0 = home_dir]
    /\ UNCHANGED <<repo, stage, tags, hostname, tag_config, trace, prev>>
    /\ UNCHANGED <<fs, dotfile_stage_path, dotfile_tag_config_path, cmd>>

\* what a command leaves: the tree and its record
Ran(st, op, arg) ==
    /\ fs' = st.files
    /\ cmd' = [op |-> op, arg |-> arg, calls |-> st.calls, status |-> st.status,
               count |-> cmd.count + 1]
    /\ UNCHANGED <<repo, stage, tags, hostname, tag_config, run, trace, prev>>
    /\ UNCHANGED <<home, home_dir, dotfile_stage_path, dotfile_tag_config_path>>

\* dotmgr -S
MainSpecializeAll ==
    /\ cmd.count < MaxCommands
    /\ \E reversed \in BOOLEAN : Ran(main_specialize_all(fs, reversed), "-S", <<>>)

\* dotmgr -s FILE
MainSpecialize(file) ==
    /\ cmd.count < MaxCommands
    /\ Ran(main_specialize(fs, file), "-s", file)

Next ==
    \/ \E p \in Paths : Specialize(p)
    \/ \E p \in Paths : Generalize(p)
    \/ SpecializeDirectory(DirD)
    \/ GeneralizeDirectory(DirD)

NextEngine ==
    \/ Specialize(PathB)
    \/ Generalize(PathB)

NextTags == GetTags

NextLink ==
    \/ \E p \in Paths : Link(p)
    \/ \E p \in Paths : Specialize(p)

NextMain ==
    \/ MainSpecializeAll
    \/ \E file \in FileArguments : MainSpecialize(file)

Spec == Init /\ [][Next]_vars
SpecEngine == InitEngine /\ [][NextEngine]_vars
SpecTags == InitTags /\ [][NextTags]_vars
SpecLink == InitLink /\ [][NextLink]_vars
SpecMain == InitMain /\ [][NextMain]_vars

----------------------------------------------------------------------------
(* Vocabulary of the properties                                            *)

\* the line contains the doubled marker immediately followed by the keyword
HasDirective(cseq, line, keyword) == Contains(line, Directive(cseq, keyword))

IsDirectiveLine(cseq, line) ==
    \E keyword \in {KwOnly, KwNot, KwEnd} : HasDirective(cseq, line, keyword)

\* a directive line in the form of the file format: its first token is the doubled
\* marker with the keyword, and the line holds no other directive
IsPlain(cseq, line, keyword) ==
    /\ Split(line) # <<>>
    /\ Split(line)[1] = Directive(cseq, keyword)
    /\ \A other \in {KwOnly, KwNot, KwEnd} \ {keyword} : ~HasDirective(cseq, line, other)

\* the tokens that follow the first token, as a set
TagsAfterKeyword(line) == {Split(line)[k] : k \in 2..Len(Split(line))}

HostTagSet == {tags[k] : k \in DOMAIN tags}

\* lines j < i hold no directive line after line g: g governs line i
Governs(cseq, content, g, i) ==
    /\ g < i
    /\ IsDirectiveLine(cseq, content[g])
    /\ \A j \in (g + 1)..(i - 1) : ~IsDirectiveLine(cseq, content[j])

\* the flag with which iteration i starts
FlagBefore(t, i) == IF i = 1 THEN FALSE ELSE t.flags[i - 1]

\* the lines are data lines and well-formed blocks, none inside another: an only or
\* not line opens a block only outside of one, an end line closes an open one, and
\* no line holds two kinds of directive
RECURSIVE WellFormed(_, _, _)
WellFormed(cseq, content, open) ==
    IF content = <<>> THEN ~open
    ELSE LET line == Head(content)
             opens == HasDirective(cseq, line, KwOnly) \/ HasDirective(cseq, line, KwNot)
             both == HasDirective(cseq, line, KwOnly) /\ HasDirective(cseq, line, KwNot)
             closes == HasDirective(cseq, line, KwEnd)
         IN  IF ~opens /\ ~closes THEN WellFormed(cseq, Tail(content), open)
             ELSE IF opens /\ ~closes /\ ~both /\ ~open
                  THEN WellFormed(cseq, Tail(content), TRUE)
             ELSE IF closes /\ ~opens /\ open
                  THEN WellFormed(cseq, Tail(content), FALSE)
             ELSE FALSE

\* the last two transforms are a specialize and the generalize of what it wrote
IsRoundTrip ==
    /\ prev.op = "specialize"
    /\ trace.op = "generalize"
    /\ trace.path = prev.path
    /\ trace.inp = ReadLines(Concat(prev.writes))

----------------------------------------------------------------------------
(* C1: round trip.  Generalizing what specialize wrote of a well-formed     *)
(* generic file (data lines and non-nested only/not ... end blocks, any     *)
(* data lines in the blocks), under the same tags, gives the generic file   *)
(* back line for line.                                                      *)
C1_RoundTrip ==
    (IsRoundTrip /\ WellFormed(prev.cseq, prev.inp, FALSE))
        => ReadLines(Concat(trace.writes)) = prev.inp

\* the section of the directive line is inactive for the host: only without a
\* common tag, not with one
Inactive(keyword, line) ==
    LET match == HostTagSet \cap TagsAfterKeyword(line) # {}
    IN  \/ keyword = KwOnly /\ ~match
        \/ keyword = KwNot /\ match

(* C2: in specialize, a data line whose section was opened by an only or    *)
(* not directive line is written with exactly one marker prepended when     *)
(* the section is inactive (only without a common tag, not with one) and    *)
(* unchanged otherwise.                                                     *)
C2_SuppressionRule ==
    trace.op = "specialize" =>
        \A i \in DOMAIN trace.inp :
            ~IsDirectiveLine(trace.cseq, trace.inp[i]) =>
                \A g \in DOMAIN trace.inp :
                    Governs(trace.cseq, trace.inp, g, i) =>
                        \A keyword \in {KwOnly, KwNot} :
                            IsPlain(trace.cseq, trace.inp[g], keyword) =>
                                trace.writes[i] =
                                    IF Inactive(keyword, trace.inp[g])
                                    THEN trace.cseq \o trace.inp[i]
                                    ELSE trace.inp[i]

\* a data line of a not section that shares a tag with the host was commented
\* out, and a data line of an only section that shares one was not
C2_Witness ==
    /\ trace.op = "specialize"
    /\ \E i, g \in DOMAIN trace.inp :
          /\ ~IsDirectiveLine(trace.cseq, trace.inp[i])
          /\ Governs(trace.cseq, trace.inp, g, i)
          /\ IsPlain(trace.cseq, trace.inp[g], KwNot)
          /\ Inactive(KwNot, trace.inp[g])
          /\ trace.writes[i] = trace.cseq \o trace.inp[i]

(* C3: a file none of whose lines contains the doubled marker followed by  *)
(* only, not or end is written unchanged by specialize and by generalize.   *)
C3_NoOpWithoutDirectives ==
    ( /\ trace.op \in {"specialize", "generalize"}
      /\ \A i \in DOMAIN trace.inp : ~IsDirectiveLine(trace.cseq, trace.inp[i]) )
    => /\ trace.writes = trace.inp
       /\ (IF trace.op = "specialize" THEN stage ELSE repo)[trace.path]
             = File(trace.inp)

\* a directive-free file with a line that starts with the marker went through
\* specialize and then generalize
C3_Witness ==
    /\ IsRoundTrip
    /\ \A i \in DOMAIN prev.inp : ~IsDirectiveLine(prev.cseq, prev.inp[i])
    /\ \A i \in DOMAIN trace.inp : ~IsDirectiveLine(trace.cseq, trace.inp[i])
    /\ \E i \in DOMAIN trace.inp : i > 1 /\ StartsWith(trace.inp[i], trace.cseq)

(* C4: specialize and generalize write every line that contains an only,   *)
(* not or end directive exactly as read, whatever the flag and the tags.    *)
C4_DirectivesVerbatim ==
    trace.op \in {"specialize", "generalize"} =>
        \A i \in DOMAIN trace.inp :
            IsDirectiveLine(trace.cseq, trace.inp[i]) => trace.writes[i] = trace.inp[i]

\* both directions met, with the flag set, a line that holds two directives
C4_Witness ==
    /\ IsRoundTrip
    /\ \E i \in DOMAIN trace.inp :
          /\ FlagBefore(trace, i)
          /\ FlagBefore(prev, i)
          /\ HasDirective(trace.cseq, trace.inp[i], KwOnly)
          /\ HasDirective(trace.cseq, trace.inp[i], KwEnd)

(* C5: in generalize, every non-directive line processed while strip is    *)
(* true is written as the line read less one leading marker, nothing else   *)
(* removed: the line read is the marker followed by the line written.       *)
C5_StripsOneLeadingMarker ==
    trace.op = "generalize" =>
        \A i \in DOMAIN trace.inp :
            (~IsDirectiveLine(trace.cseq, trace.inp[i]) /\ FlagBefore(trace, i))
            => trace.inp[i] = trace.cseq \o trace.writes[i]

(* C8: the empty tag list and the default tag list of a host without a     *)
(* configuration line raise no error and match no section tags: specialize  *)
(* leaves the flag set after every only directive line and clear after      *)
(* every not directive line (one that is not an only line as well).         *)
C8_NoTagsMatchNothing ==
    tags \in {<<>>, NoTagsFound} =>
        /\ (run.op = "specialize" /\ run.repo0[run.arg].kind = "file")
              => run.status # "error"
        /\ trace.op = "specialize" =>
              \A i \in DOMAIN trace.inp :
                  /\ HasDirective(trace.cseq, trace.inp[i], KwOnly)
                        => trace.flags[i]
                  /\ ( /\ HasDirective(trace.cseq, trace.inp[i], KwNot)
                       /\ ~HasDirective(trace.cseq, trace.inp[i], KwOnly) )
                        => ~trace.flags[i]

\* under the default tag list, specialize met an only line with tags and a not
\* line with tags
C8_Witness ==
    /\ tags = NoTagsFound
    /\ get_tags(hostname, tag_config) = NoTagsFound
    /\ trace.op = "specialize"
    /\ \E i, j \in DOMAIN trace.inp :
          /\ IsPlain(trace.cseq, trace.inp[i], KwOnly)
          /\ TagsAfterKeyword(trace.inp[i]) # {}
          /\ trace.flags[i]
          /\ IsPlain(trace.cseq, trace.inp[j], KwNot)
          /\ TagsAfterKeyword(trace.inp[j]) # {}
          /\ ~trace.flags[j]

----------------------------------------------------------------------------
(* Properties of the flag                                                  *)

Transformed == trace.op \in {"specialize", "generalize"}

(* C12: in both directions the flag is false after every line that         *)
(* contains the doubled marker followed by end, whatever the flag was       *)
(* before and whatever else the line contains.                              *)
C12_EndResetsFlag ==
    Transformed =>
        \A i \in DOMAIN trace.inp :
            HasDirective(trace.cseq, trace.inp[i], KwEnd) => ~trace.flags[i]

\* one of the whitespace-delimited tokens of the line is exactly the doubled
\* marker followed by the keyword
HasToken(cseq, line, keyword) == InList(Directive(cseq, keyword), Split(line))

(* C13: in both directions a line none of whose whitespace-delimited       *)
(* tokens is exactly the doubled marker followed by only, not or end        *)
(* leaves the flag as it was.                                               *)
C13_OnlyTokensAreDirectives ==
    Transformed =>
        \A i \in DOMAIN trace.inp :
            (\A keyword \in {KwOnly, KwNot, KwEnd} :
                 ~HasToken(trace.cseq, trace.inp[i], keyword))
            => trace.flags[i] = FlagBefore(trace, i)

\* the tokens that follow the first token equal to the keyword token, as a set
TagsAfterToken(cseq, line, keyword) ==
    LET tokens == Split(line)
        k == CHOOSE n \in DOMAIN tokens :
                 /\ tokens[n] = Directive(cseq, keyword)
                 /\ \A m \in 1..(n - 1) : tokens[m] # Directive(cseq, keyword)
    IN  {tokens[n] : n \in (k + 1)..Len(tokens)}

(* C14: in both directions, on a line that holds the only or the not        *)
(* keyword token and no other directive, the tags matched against the host  *)
(* tags are the tokens that follow the keyword token: the flag after the    *)
(* line is set exactly when an only line has no such token among the host   *)
(* tags, or a not line has one.                                             *)
C14_SectionTagsFollowKeyword ==
    Transformed =>
        \A i \in DOMAIN trace.inp : \A keyword \in {KwOnly, KwNot} :
            ( /\ HasToken(trace.cseq, trace.inp[i], keyword)
              /\ \A other \in {KwOnly, KwNot, KwEnd} \ {keyword} :
                     ~HasDirective(trace.cseq, trace.inp[i], other) )
            => LET match == HostTagSet
                              \cap TagsAfterToken(trace.cseq, trace.inp[i], keyword) # {}
               IN  trace.flags[i] = IF keyword = KwOnly THEN ~match ELSE match

(* C15: flat semantics.  In both directions the flag after a line depends   *)
(* on the most recent directive line and the tags only: a data line leaves  *)
(* the flag as it was, and a directive line leaves it the same wherever in  *)
(* the file its text stands, whatever blocks are open.  So after an end     *)
(* line the flag is false and specialize writes the data lines unchanged,   *)
(* until the next only or not line.                                         *)
C15_FlatSemantics ==
    Transformed =>
        /\ \A i \in DOMAIN trace.inp :
              IF IsDirectiveLine(trace.cseq, trace.inp[i])
              THEN /\ \A j \in DOMAIN trace.inp :
                         trace.inp[j] = trace.inp[i] => trace.flags[j] = trace.flags[i]
                   /\ IsPlain(trace.cseq, trace.inp[i], KwEnd) => ~trace.flags[i]
              ELSE /\ trace.flags[i] = FlagBefore(trace, i)
                   /\ (trace.op = "specialize" /\ ~trace.flags[i])
                          => trace.writes[i] = trace.inp[i]

\* specialize met an inactive outer block, an inner only or not line, an end
\* line and then a data line, which it wrote unchanged
C15_Witness ==
    /\ trace.op = "specialize"
    /\ \E o, n, e, i \in DOMAIN trace.inp :
          /\ o < n /\ n < e /\ i = e + 1
          /\ IsDirectiveLine(trace.cseq, trace.inp[o])
          /\ trace.flags[o]
          /\ \E keyword \in {KwOnly, KwNot} : IsPlain(trace.cseq, trace.inp[n], keyword)
          /\ \A k \in (o + 1)..(e - 1) : ~HasDirective(trace.cseq, trace.inp[k], KwEnd)
          /\ IsPlain(trace.cseq, trace.inp[e], KwEnd)
          /\ ~IsDirectiveLine(trace.cseq, trace.inp[i])
          /\ trace.writes[i] = trace.inp[i]

(* C18: generalize loses nothing but markers: it writes as many lines as    *)
(* it read, in the same order, and each is the line read or the line read   *)
(* less one leading marker.                                                 *)
C18_GeneralizeKeepsLines ==
    trace.op = "generalize" =>
        /\ Len(ReadLines(Concat(trace.writes))) = Len(trace.inp)
        /\ \A i \in DOMAIN trace.inp :
              \/ trace.writes[i] = trace.inp[i]
              \/ trace.inp[i] = trace.cseq \o trace.writes[i]

\* the file the last transform wrote
Output == (IF trace.op = "specialize" THEN stage ELSE repo)[trace.path]

(* C19: specialize and generalize write the first line as read, so the      *)
(* marker of the file written is the marker of the file read.               *)
C19_FirstLineKept ==
    Transformed =>
        /\ trace.writes[1] = trace.inp[1]
        /\ Output.kind = "file"
        /\ Output.lines[1] = trace.inp[1]
        /\ identify_comment_sequence(Output.lines[1]) = trace.cseq

\* a file whose first line is itself a directive line that sets the flag went
\* through specialize and generalize; lines below the first were commented out
C19_Witness ==
    /\ IsRoundTrip
    /\ IsDirectiveLine(prev.cseq, prev.inp[1])
    /\ prev.flags[1]
    /\ trace.flags[1]
    /\ trace.cseq = prev.cseq
    /\ \E i \in DOMAIN prev.inp : i > 1 /\ prev.writes[i] = prev.cseq \o prev.inp[i]

----------------------------------------------------------------------------
(* Vocabulary of the properties of an invocation                           *)

Specializing == run.op \in {"specialize", "specialize_directory"}
Generalizing == run.op \in {"generalize", "generalize_directory"}

\* the store the invocation read, as it was; the store it writes, before and now
Source == IF Specializing THEN run.repo0 ELSE run.stage0
DestBefore == IF Specializing THEN run.stage0 ELSE run.repo0
DestNow == IF Specializing THEN stage ELSE repo

\* a file whose first line is empty or whitespace-only
BlankFirst(entry) ==
    /\ entry.kind = "file"
    /\ entry.lines # <<>>
    /\ \A k \in DOMAIN entry.lines[1] : entry.lines[1][k] \in Whitespace

Entered(p) == \E k \in DOMAIN run.done : run.done[k] = p

(* C6: when the first line of a file is empty or whitespace-only,          *)
(* specialize and generalize end the whole run there: the destination file  *)
(* of that path is as it was, and no later file of the batch is entered or  *)
(* written.                                                                 *)
C6_BlankFirstLineAborts ==
    (Specializing \/ Generalizing) =>
        \A i \in DOMAIN run.done :
            BlankFirst(Source[run.done[i]]) =>
                /\ run.status = "exit"
                /\ i = Len(run.done)
                /\ DestNow[run.done[i]] = DestBefore[run.done[i]]
                /\ \A j \in (i + 1)..Len(run.order) :
                      /\ ~Entered(run.order[j])
                      /\ DestNow[run.order[j]] = DestBefore[run.order[j]]

\* a directory was being specialized; the first file had a blank first line and a
\* stage copy, the second file was one specialize would have written
C6_Witness ==
    /\ run.op = "specialize_directory"
    /\ Len(run.order) = 2
    /\ run.done = <<run.order[1]>>
    /\ BlankFirst(run.repo0[run.order[1]])
    /\ run.stage0[run.order[1]] = File(SpecificBlock)
    /\ stage[run.order[1]] = File(SpecificBlock)
    /\ run.repo0[run.order[2]] = File(GenericBlock)
    /\ run.stage0[run.order[2]] = Absent
    /\ stage[run.order[2]] = Absent

(* C7: generalize of a path whose stage file cannot be opened raises no    *)
(* error, leaves the repository copy of the path as it was, and the batch   *)
(* goes on to its next file.                                                *)
C7_MissingStageFileIsSoft ==
    Generalizing =>
        \A i \in DOMAIN run.done :
            run.stage0[run.done[i]].kind # "file" =>
                /\ ~(run.status # "ok" /\ i = Len(run.done))
                /\ repo[run.done[i]] = run.repo0[run.done[i]]
                /\ i < Len(run.order) => i < Len(run.done)

\* a directory was being generalized; the first entry could not be opened, the
\* second was generalized into the repository
C7_Witness ==
    /\ run.op = "generalize_directory"
    /\ Len(run.order) = 2
    /\ run.stage0[run.order[1]] = Dangling
    /\ run.repo0[run.order[1]] = File(GenericBlock)
    /\ repo[run.order[1]] = File(GenericBlock)
    /\ run.done = run.order
    /\ run.status = "ok"
    /\ trace.op = "generalize"
    /\ trace.path = run.order[2]
    /\ repo[run.order[2]] # run.repo0[run.order[2]]

(* C9: specialize of an empty generic file writes nothing: the stage file  *)
(* of the path is neither created nor truncated; generalize of an empty     *)
(* stage file leaves the repository copy as it was.                         *)
C9_EmptyFileIsNoOp ==
    /\ (Specializing \/ Generalizing) =>
          \A i \in DOMAIN run.done :
              Source[run.done[i]] = File(<<>>) =>
                  DestNow[run.done[i]] = DestBefore[run.done[i]]
    /\ (run.op \in {"specialize", "generalize"} /\ Source[run.arg] = File(<<>>)) =>
          /\ repo = run.repo0
          /\ stage = run.stage0
          /\ run.status = "ok"

\* an empty generic file was specialized while the stage held a copy of the path
C9_Witness ==
    /\ run.op = "specialize"
    /\ run.repo0[run.arg] = File(<<>>)
    /\ run.stage0[run.arg] = File(SpecificBlock)
    /\ stage[run.arg] = File(SpecificBlock)

(* C20: the store an invocation reads is left as it was, and in the store  *)
(* it writes only the paths it was called for can differ: specialize and    *)
(* specialize_directory change no repository file, generalize and           *)
(* generalize_directory change no stage file.                               *)
C20_SourceReadOnly ==
    /\ Specializing =>
          /\ repo = run.repo0
          /\ \A p \in Paths : stage[p] # run.stage0[p] => Entered(p)
    /\ Generalizing =>
          /\ stage = run.stage0
          /\ \A p \in Paths : repo[p] # run.repo0[p] => Entered(p)
    /\ run.op \in {"specialize", "generalize"} =>
          \A p \in Paths \ {run.arg} :
              repo[p] = run.repo0[p] /\ stage[p] = run.stage0[p]

\* one path was specialized and its stage file rewritten, while both stores held
\* a file at the other path and the repository holds what it held
C20_Witness ==
    /\ run.op = "specialize"
    /\ run.status = "ok"
    /\ run.stage0[run.arg].kind = "file"
    /\ stage[run.arg] # run.stage0[run.arg]
    /\ repo[run.arg] = File(GenericBlock)
    /\ \E q \in Paths \ {run.arg} :
          /\ repo[q] = File(GenericBlock)
          /\ stage[q] = File(SpecificBlock)

----------------------------------------------------------------------------
(* C10: tag resolution returns, for the first configuration line whose     *)
(* text up to and including its first colon is the host name and a colon,   *)
(* all whitespace-separated tokens that follow that colon; without such a   *)
(* line, the default tag list.                                              *)
RECURSIVE TagsOfFirstMatchingLine(_, _)
TagsOfFirstMatchingLine(host, config) ==
    IF config = <<>> THEN NoTagsFound
    ELSE LET line == Head(config)
         IN  IF /\ Contains(line, Colon)
                /\ SubSeq(line, 1, Find(line, Colon)) = host \o Colon
             THEN Split(From(line, Find(line, Colon) + 1))
             ELSE TagsOfFirstMatchingLine(host, Tail(config))

C10_TagResolution ==
    run.op = "get_tags" => tags = TagsOfFirstMatchingLine(hostname, tag_config)

----------------------------------------------------------------------------
(* C11: link(p) creates the link home/p -> stage/p exactly when nothing    *)
(* lies at home/p (the directory of home/p being there or missing), and     *)
(* otherwise leaves home/p as it was; it ends without an error, whatever    *)
(* lies at home/p: nothing, a file, a directory, a link to an existing      *)
(* target or a link whose target is missing.                                *)
C11_LinkOnlyWhenNothingThere ==
    (run.op = "link" /\ run.home_dir0 # "file") =>
        /\ run.status = "ok"
        /\ home[run.arg] = IF run.home0[run.arg] = "absent" THEN "link"
                           ELSE run.home0[run.arg]

----------------------------------------------------------------------------
(* Vocabulary of the properties of a command                               *)

\* a directory named .git lies on the path
UnderGit(path) == \E k \in 1..(Len(path) - 1) : path[k] = ".git"

(* C16: dotmgr -S calls specialize for no file below a directory named      *)
(* .git, for no file below the stage directory and not for the tag          *)
(* configuration, wherever in the repository these lie.                     *)
C16_TraversalSkipsBookkeeping ==
    cmd.op = "-S" =>
        \A i \in DOMAIN cmd.calls :
            /\ ~UnderGit(cmd.calls[i].read)
            /\ ~Below(cmd.calls[i].read, dotfile_stage_path)
            /\ cmd.calls[i].read # dotfile_tag_config_path

(* C17: dotmgr -s FILE reads the generic copy <repository>/FILE and writes  *)
(* the specific copy <stage>/FILE, as dotmgr -S does for each dotfile p it  *)
(* specializes: <repository>/p is read and <stage>/p written.               *)
C17_RelativeIdentifiers ==
    /\ cmd.op = "-s" =>
          \A i \in DOMAIN cmd.calls :
              /\ cmd.calls[i].read = dotfile_repository_path \o cmd.arg
              /\ cmd.calls[i].write \in {<<>>, dotfile_stage_path \o cmd.arg}
    /\ cmd.op = "-S" =>
          \A i \in DOMAIN cmd.calls :
              \E k \in 1..Len(cmd.calls[i].read) :
                  LET p == From(cmd.calls[i].read, k + 1)
                  IN  /\ cmd.calls[i].read = dotfile_repository_path \o p
                      /\ cmd.calls[i].write \in {<<>>, dotfile_stage_path \o p}

=============================================================================
